---- MODULE Spec2Model ----
(***************************************************************************)
(* Book PDF optimisation of noteshrinker-django: the Book table, the       *)
(* upload / process / status / download views of noteshrinker/views.py,    *)
(* the background worker thread and the pipeline of pdf_utils.process_book.*)
(*                                                                         *)
(* Every Django request runs on its own thread and every worker is a       *)
(* daemon thread, so a handler that reads a row and later saves it is two  *)
(* steps: other threads may run in between.  Model.save() writes every     *)
(* column of the instance the thread holds, and inserts the row again when *)
(* the UPDATE matches no row.  Database statements themselves do not fail; *)
(* file and conversion work may raise at any stage.  A file is written or  *)
(* read as a whole.                                                        *)
(***************************************************************************)
EXTENDS Integers, Sequences, FiniteSets, TLC

\* ---------------------------------------------------------------- bounds
MaxBooks == 1             \* books uploaded in Spec and SpecFair
MaxConcurrentBooks == 2   \* books uploaded in SpecBooks
MaxPages == 2             \* pages of a main PDF
MaxCoverPages == 2        \* pages of a cover PDF
MaxRuns == 2              \* book_process requests accepted, over all books

\* ------------------------------------------------------- optional values
Range(seq) == {seq[i] : i \in 1..Len(seq)}
None == <<>>
Some(x) == <<x>>
IsSome(o) == o # <<>>
Get(o) == o[1]

\* ------------------------------------------------------------- the files
\* An uploaded PDF: its pages in order, and whether a PDF reader can parse it.
\* A page is named by the book it was uploaded for, the file and its place.
PageSeq(b, kind, n) == [i \in 1..n |-> <<b, kind, i>>]
Page(src, form) == [src |-> src, form |-> form]
Pdf(b, kind, n, readable) ==
    [pages |-> IF readable THEN [i \in 1..n |-> Page(PageSeq(b, kind, n)[i], "original")]
               ELSE <<>>,
     readable |-> readable,
     exists |-> TRUE]

\* Size of a file in the unit the model counts in: one per page plus a header.
SizeMb(pages) == Len(pages) + 1

MainInputs == {[n |-> n, readable |-> TRUE] : n \in 0..MaxPages}
                \cup {[n |-> 0, readable |-> FALSE]}
SmallCovers == {None, Some([n |-> 1, readable |-> TRUE]), Some([n |-> 0, readable |-> FALSE])}
ReadableMains == {m \in MainInputs : m.readable /\ m.n > 0}
CoverInputs == {None} \cup {Some([n |-> n, readable |-> TRUE]) : n \in 1..MaxCoverPages}
                \cup {Some([n |-> 0, readable |-> FALSE])}

\* ---------------------------------------------------------- the settings
\* A fraction p * 0.01 is kept as the pair <<p, 100>>.
Percent(p) == <<p, 100>>

Absent == "absent"
DefaultPost == [dpi |-> Absent, num_colors |-> Absent, sample_fraction |-> Absent,
                sat_threshold |-> Absent, value_threshold |-> Absent,
                white_bg |-> Absent, global_palette |-> Absent]
CustomPost == [dpi |-> "300", num_colors |-> "4", sample_fraction |-> "10",
               sat_threshold |-> "30", value_threshold |-> "40",
               white_bg |-> "false", global_palette |-> "false"]
BadPost == [DefaultPost EXCEPT !.num_colors = "abc"]
PostInputs == {DefaultPost, CustomPost, BadPost}

\* Posts with one number that int() or float() accepts and no engine can use.
OutOfRangePosts ==
    {[DefaultPost EXCEPT !.num_colors = "0"], [DefaultPost EXCEPT !.dpi = "-5"],
     [DefaultPost EXCEPT !.sample_fraction = "250"], [DefaultPost EXCEPT !.sat_threshold = "-5"],
     [DefaultPost EXCEPT !.value_threshold = "250"]}

NumericStrings == {"300", "4", "10", "30", "40", "150", "8", "5", "20", "25", "0", "-5", "250"}
ToInt(s) == CASE s = "300" -> 300 [] s = "4" -> 4 [] s = "10" -> 10 [] s = "30" -> 30
              [] s = "40" -> 40 [] s = "150" -> 150 [] s = "8" -> 8 [] s = "5" -> 5
              [] s = "20" -> 20 [] s = "25" -> 25 [] s = "0" -> 0 [] s = "-5" -> 0 - 5
              [] s = "250" -> 250

\* request.POST.get(key, default)
PostGet(post, key, default) == IF post[key] = Absent THEN default ELSE post[key]

\* int(...) and float(...) raise ValueError on a value that is no number.
Parses(post) ==
    /\ PostGet(post, "dpi", "150") \in NumericStrings
    /\ PostGet(post, "num_colors", "8") \in NumericStrings
    /\ PostGet(post, "sample_fraction", "5") \in NumericStrings
    /\ PostGet(post, "sat_threshold", "20") \in NumericStrings
    /\ PostGet(post, "value_threshold", "25") \in NumericStrings

settings_dict(post) ==
    [dpi |-> ToInt(PostGet(post, "dpi", "150")),
     num_colors |-> ToInt(PostGet(post, "num_colors", "8")),
     sample_fraction |-> Percent(ToInt(PostGet(post, "sample_fraction", "5"))),
     sat_threshold |-> Percent(ToInt(PostGet(post, "sat_threshold", "20"))),
     value_threshold |-> Percent(ToInt(PostGet(post, "value_threshold", "25"))),
     white_bg |-> (PostGet(post, "white_bg", "true") = "true"),
     global_palette |-> (PostGet(post, "global_palette", "true") = "true")]

\* ------------------------------------------------------------- the state
VARIABLES
    db,        \* the Book table: primary key -> row
    nextId,    \* the table's auto-increment counter
    media,     \* uploaded files on disk: key -> [main, cover], each an optional Pdf
    workdir,   \* MEDIA_ROOT/books/temp/<key>: images, optimized, the two PDFs
    uploads,   \* keys of book_upload requests between their two saves
    procs,     \* book_process requests that have read their row
    workers,   \* the background threads, in the order they were started
    resp,      \* the last response of book_status_json or book_download, or the
               \* last refusal of book_upload
    fs,        \* the regular files under PDF_ROOT and PNG_ROOT: path -> content
    reply      \* the last response of download_pdf or download_zip

vars == <<db, nextId, media, workdir, uploads, procs, workers, resp, fs, reply>>

\* `book` is the instance the handler answered from; the other fields are sent.
NoResponse == [op |-> "none", book_id |-> 0, code |-> 0, book |-> None, status |-> None,
               download_url |-> FALSE, optimized_size_mb |-> None, content |-> None,
               compression_ratio |-> None, total_pages |-> None]

Response(op, b, code) ==
    [op |-> op, book_id |-> b, code |-> code, book |-> None, status |-> None,
     download_url |-> FALSE, optimized_size_mb |-> None, content |-> None,
     compression_ratio |-> None, total_pages |-> None]

BookIds == 1..MaxConcurrentBooks

STATUS_CHOICES == {"uploaded", "preview", "processing", "completed", "failed"}

EmptyDir == [images |-> <<>>, optimized |-> <<>>,
             main_optimized |-> None, final_optimized |-> None]

\* Variant: a status that STATUS_CHOICES does not list.
NewBookDraft(b, hasCover) ==
    [status |-> "draft",
     cover_pdf |-> hasCover,
     optimized_pdf |-> None,
     original_size_mb |-> None,
     optimized_size_mb |-> None,
     page_count |-> None,
     cover_page_count |-> None,
     processing_settings |-> None]

\* Book(...) as book_upload builds it, with the model's defaults.
NewBook(b, hasCover) ==
    [status |-> "uploaded",
     cover_pdf |-> hasCover,
     optimized_pdf |-> None,
     original_size_mb |-> None,
     optimized_size_mb |-> None,
     page_count |-> None,
     cover_page_count |-> None,
     processing_settings |-> None]   \* {} until book_process stores a dict

\* Model.save(): UPDATE of every column, INSERT when no row has the key.
Save(b, inst) == [id \in DOMAIN db \cup {b} |-> IF id = b THEN inst ELSE db[id]]

\* FieldFile.delete(): the stored file goes.
Unlink(file) == IF IsSome(file) THEN Some([Get(file) EXCEPT !.exists = FALSE]) ELSE None

\* Model.delete(): the row goes; a key with no row is left alone.
DeleteRow(b) == [id \in DOMAIN db \ {b} |-> db[id]]

\* ------------------------------------------- strings, paths and the disk
\* The download views work on strings: a string is a sequence of characters,
\* so that `in`, find(), startswith() and endswith() are computed character
\* by character as Python computes them.
Contains(s, sub) ==
    \E i \in 1..(Len(s) - Len(sub) + 1) : SubSeq(s, i, i + Len(sub) - 1) = sub
StartsWith(s, prefix) == Len(prefix) <= Len(s) /\ SubSeq(s, 1, Len(prefix)) = prefix
EndsWith(s, suffix) ==
    Len(suffix) <= Len(s) /\ SubSeq(s, Len(s) - Len(suffix) + 1, Len(s)) = suffix
\* str.find(c): the 0-based index of the first c, or -1.
Find(s, c) ==
    IF \E i \in 1..Len(s) : s[i] = c
    THEN (CHOOSE i \in 1..Len(s) : s[i] = c /\ \A j \in 1..(i - 1) : s[j] # c) - 1
    ELSE 0 - 1
\* s[:n] for n >= 0.
Take(s, n) == SubSeq(s, 1, IF n < Len(s) THEN n ELSE Len(s))

DotPdf == <<".", "p", "d", "f">>
DotPng == <<".", "p", "n", "g">>
DotZip == <<".", "z", "i", "p">>

\* pathlib: a path is the sequence of its components below "/"; parsing a
\* string drops empty components and ".", and keeps "..".
RECURSIVE Split(_)
Split(s) ==
    IF s = <<>> THEN << <<>> >>
    ELSE LET rest == Split(Tail(s))
         IN  IF Head(s) = "/" THEN << <<>> >> \o rest
             ELSE << <<Head(s)>> \o Head(rest) >> \o Tail(rest)
IsComponent(c) == c # <<>> /\ c # <<".">>
Parts(s) == SelectSeq(Split(s), IsComponent)
\* Path(root) / s: an absolute s replaces root.
PathJoin(root, s) == IF s # <<>> /\ s[1] = "/" THEN Parts(s) ELSE root \o Parts(s)
Parent(path) == IF path = <<>> THEN <<>> ELSE SubSeq(path, 1, Len(path) - 1)
Name(path) == IF path = <<>> THEN <<>> ELSE path[Len(path)]
RECURSIVE Str(_)
Str(path) ==
    IF path = <<>> THEN <<"/">>
    ELSE IF Len(path) = 1 THEN <<"/">> \o path[1]
    ELSE Str(Parent(path)) \o <<"/">> \o Name(path)
\* Path.resolve() where nothing is a symbolic link: ".." steps up.
RECURSIVE ResolveFrom(_, _)
ResolveFrom(done, rest) ==
    IF rest = <<>> THEN done
    ELSE IF Head(rest) = <<".", ".">> THEN ResolveFrom(Parent(done), Tail(rest))
    ELSE ResolveFrom(Append(done, Head(rest)), Tail(rest))
Resolve(path) == ResolveFrom(<<>>, path)

\* settings.PDF_ROOT and settings.PNG_ROOT, and the directories of the host.
PDF_ROOT == << <<"d">> >>
PNG_ROOT == << <<"g">> >>
Dirs == {<<>>, PDF_ROOT, PNG_ROOT}

\* What a regular file holds: `size` tells two files of a kind apart, and an
\* archive lists the names of its entries in the order they were written.
File(kind, size) == [kind |-> kind, size |-> size, entries |-> <<>>]
Zip(entries) == [kind |-> "zip", size |-> 0, entries |-> entries]
\* Files of the host outside both folders: /s, and /dx next to /d.
HostFiles == (<< <<"s">> >> :> File("host", 1)) @@ (<< <<"d", "x">> >> :> File("host", 2))

\* The operating system walking a path: every component on the way must be
\* a directory.  Some(where it ends) or None.
RECURSIVE Walk(_, _)
Walk(cur, rest) ==
    IF rest = <<>> THEN Some(cur)
    ELSE IF cur \notin Dirs THEN None
    ELSE IF Head(rest) = <<".", ".">> THEN Walk(Parent(cur), Tail(rest))
    ELSE Walk(Append(cur, Head(rest)), Tail(rest))
\* Path.exists()
Exists(disk, path) ==
    LET end == Walk(<<>>, path)
    IN  IsSome(end) /\ (Get(end) \in Dirs \/ Get(end) \in DOMAIN disk)
\* open(path, 'w') succeeds where the folder exists and path is no folder.
Writable(path) ==
    LET end == Walk(<<>>, path) IN IsSome(end) /\ Get(end) \notin Dirs

\* A response of download_pdf or download_zip.
\* `engine` tells whether the request called notescan_main.
NoReply == [op |-> "none", code |-> 0, message |-> "", content_type |-> "",
            disposition |-> None, opened |-> None, content |-> None, engine |-> FALSE]
BadRequest(op, message) == [NoReply EXCEPT !.op = op, !.code = 400, !.message = message]
\* An exception no handler catches: Django answers 500.
ServerError(op) == [NoReply EXCEPT !.op = op, !.code = 500]

Init ==
    /\ db = <<>>
    /\ nextId = 1
    /\ media = [b \in BookIds |-> [main |-> None, cover |-> None]]
    /\ workdir = [b \in BookIds |-> EmptyDir]
    /\ uploads = {}
    /\ procs = <<>>
    /\ workers = <<>>
    /\ resp = NoResponse
    /\ fs = HostFiles
    /\ reply = NoReply

\* ------------------------------------------------------------ book_upload
\* get_pdf_info(path): page count and size of a stored PDF; raises when the
\* file is gone or cannot be parsed.
Readable(file) == IsSome(file) /\ Get(file).exists /\ Get(file).readable
PdfInfoOk(file) == Readable(file)
get_pdf_info(file) == [page_count |-> Len(Get(file).pages),
                       size_mb |-> SizeMb(Get(file).pages)]

\* Lines 269-298: the files are stored and the row is inserted with the
\* model's default status.
BookUploadCreate(main, cover) ==
    /\ LET b == nextId
           book == NewBook(b, IsSome(cover))
       IN /\ db' = Save(b, book)
          /\ media' = [media EXCEPT ![b] =
                 [main |-> Some(Pdf(b, "P", main.n, main.readable)),
                  cover |-> IF IsSome(cover)
                            THEN Some(Pdf(b, "C", Get(cover).n, Get(cover).readable))
                            ELSE None]]
          /\ uploads' = uploads \cup {[book_id |-> b, book |-> book]}
    /\ nextId' = nextId + 1
    /\ UNCHANGED <<workdir, procs, workers, resp, fs, reply>>

\* An uploaded file as the request carries it: its name and what it holds.
Upload(name, n, readable) == [name |-> name, n |-> n, readable |-> readable]
\* The files a POST can carry as main_pdf: none, PDFs, and files of other names.
UploadMains ==
    {None, Some(Upload(<<"m">> \o DotPdf, 1, TRUE)), Some(Upload(<<"m">> \o DotPdf, MaxPages, TRUE)),
     Some(Upload(<<"m">> \o DotPdf, 0, FALSE)),
     Some(Upload(<<"m", ".", "t", "x", "t">>, 0, FALSE)),
     Some(Upload(<<"m", ".", "P", "D", "F">>, 1, TRUE)),
     Some(Upload(<<"p", "d", "f">>, 1, TRUE))}
\* The files a POST can carry as cover_pdf.
UploadCovers ==
    {None, Some(Upload(<<"c">> \o DotPdf, 1, TRUE)), Some(Upload(<<"c">> \o DotPdf, 0, FALSE)),
     Some(Upload(<<"c", ".", "p", "n", "g">>, 0, FALSE)),
     Some(Upload(<<"c", ".", "p", "d", "f", "x">>, 1, TRUE))}

\* Variant: the name of the cover is not looked at.
UploadRefusalMainOnly(main, cover) ==
    IF ~IsSome(main) THEN Some("Main PDF is required")
    ELSE IF ~EndsWith(Get(main).name, DotPdf) THEN Some("Main file must be a PDF")
    ELSE None

\* Lines 276-284: the message of the 400 the files are refused with, if any.
UploadRefusal(main, cover) ==
    IF ~IsSome(main) THEN Some("Main PDF is required")
    ELSE IF ~EndsWith(Get(main).name, DotPdf) THEN Some("Main file must be a PDF")
    ELSE IF IsSome(cover) /\ ~EndsWith(Get(cover).name, DotPdf)
    THEN Some("Cover file must be a PDF")
    ELSE None

\* Lines 269-298: the POST is refused, or its first half runs.
BookUpload(main, cover) ==
    IF IsSome(UploadRefusal(main, cover))
    THEN /\ resp' = [Response("book_upload", 0, 400) EXCEPT
                        !.content = UploadRefusal(main, cover)]
         /\ UNCHANGED <<db, nextId, media, workdir, uploads, procs, workers, fs, reply>>
    ELSE BookUploadCreate(Get(main), cover)

\* Variant: the size of the cover is not added.
UploadedBookMainSizeOnly(u) ==
    LET main_info == get_pdf_info(media[u.book_id].main)
        cover_info == get_pdf_info(media[u.book_id].cover)
    IN [u.book EXCEPT
          !.page_count = Some(main_info.page_count),
          !.original_size_mb = Some(main_info.size_mb),
          !.cover_page_count = IF u.book.cover_pdf THEN Some(cover_info.page_count)
                               ELSE None,
          !.status = "preview"]

\* Lines 300-315: the instance built above gets its counts and 'preview'.
UploadedBook(u) ==
    LET main_info == get_pdf_info(media[u.book_id].main)
        cover_info == get_pdf_info(media[u.book_id].cover)
    IN [u.book EXCEPT
          !.page_count = Some(main_info.page_count),
          !.original_size_mb = Some(main_info.size_mb
                                   + IF u.book.cover_pdf THEN cover_info.size_mb ELSE 0),
          !.cover_page_count = IF u.book.cover_pdf THEN Some(cover_info.page_count)
                               ELSE None,
          !.status = "preview"]

\* Lines 300-320: the second half of the request.
BookUploadFinish(u) ==
    /\ u \in uploads
    /\ uploads' = uploads \ {u}
    /\ IF PdfInfoOk(media[u.book_id].main)
          /\ (u.book.cover_pdf => PdfInfoOk(media[u.book_id].cover))
       THEN /\ db' = Save(u.book_id, UploadedBook(u))
            /\ UNCHANGED media
       ELSE \* book.delete(): the instance's files, then the row
            /\ media' = [media EXCEPT ![u.book_id] =
                            [main |-> Unlink(@.main), cover |-> Unlink(@.cover)]]
            /\ db' = DeleteRow(u.book_id)
    /\ UNCHANGED <<nextId, workdir, procs, workers, resp, fs, reply>>

\* ----------------------------------------------------------- book_process
RemoveAt(seq, k) == [i \in 1..(Len(seq) - 1) |-> IF i < k THEN seq[i] ELSE seq[i + 1]]

\* Line 452: the only status that refuses a run.
AlreadyProcessing(book) == book.status = "processing"

NewWorker(b, settings) ==
    [book_id |-> b, settings |-> settings, pc |-> "load", book |-> None,
     image_paths |-> <<>>, optimized_paths |-> <<>>, output_pdf |-> "none",
     stages |-> <<>>, raised |-> FALSE, wrote |-> "none", missed |-> FALSE]

\* Lines 450-453: get_object_or_404 and the status test.
BookProcessRead(b) ==
    /\ procs' = IF b \notin DOMAIN db \/ AlreadyProcessing(db[b])
                THEN procs    \* 404, or 400 "Book is already being processed"
                ELSE Append(procs, [book_id |-> b, book |-> db[b]])
    /\ UNCHANGED <<db, nextId, media, workdir, uploads, workers, resp, fs, reply>>

\* Lines 455-482: parse, save the instance read above, start the thread.
BookProcessStart(k, post) ==
    /\ k \in 1..Len(procs)
    /\ procs' = RemoveAt(procs, k)
    /\ LET r == procs[k] IN
       IF ~Parses(post)
       THEN UNCHANGED <<db, workers>>    \* ValueError: 400 "Processing error"
       ELSE /\ db' = Save(r.book_id,
                          [r.book EXCEPT !.processing_settings = Some(settings_dict(post)),
                                         !.status = "processing"])
            /\ workers' = Append(workers, NewWorker(r.book_id, settings_dict(post)))
    /\ UNCHANGED <<nextId, media, workdir, uploads, resp, fs, reply>>

\* ------------------------------------------------- pdf_utils.process_book
\* Variant: one working folder for every book.
WorkDirShared(book_id) == 1

\* Line 258: the working directory is named after the book's key.
WorkDir(book_id) == book_id

Max(a, b) == IF a >= b THEN a ELSE b

\* Files page_0001.png .. page_000n.png written over what the folder holds.
Overwrite(old, new) ==
    [i \in 1..Max(Len(old), Len(new)) |-> IF i <= Len(new) THEN new[i] ELSE old[i]]

\* pdf_to_images: convert_from_path, then one PNG per page, numbered from 1.
Rasterize(file) == [i \in 1..Len(Get(file).pages) |-> Page(Get(file).pages[i].src, "raster")]
ImagePaths(dir, n) == [i \in 1..n |-> <<dir, i>>]

\* The number a file name ends in, as the engine's numeric sort reads it.
PageNumber(path) == path[2]

RECURSIVE Insert(_, _)
Insert(sorted, path) ==
    IF sorted = <<>> THEN <<path>>
    ELSE IF PageNumber(path) < PageNumber(Head(sorted))
         THEN <<path>> \o sorted
         ELSE <<Head(sorted)>> \o Insert(Tail(sorted), path)

RECURSIVE SortNumerically(_)
SortNumerically(paths) ==
    IF paths = <<>> THEN <<>>
    ELSE Insert(SortNumerically(SubSeq(paths, 1, Len(paths) - 1)), paths[Len(paths)])

\* What the folder holds at a path.
ImageAt(path) == workdir[path[1]].images[path[2]]
OptimizedAt(path) == workdir[path[1]].optimized[path[2]]

\* dict.get(key, default)
DictGet(d, key, default) == IF key \in DOMAIN d THEN d[key] ELSE default

\* Variant: the engine is handed the first page alone.
OptionsFirstPage(settings, image_paths) ==
    [basename |-> "optimized",
     filenames |-> SubSeq(image_paths, 1, IF image_paths = <<>> THEN 0 ELSE 1),
     global_palette |-> DictGet(settings, "global_palette", TRUE),
     num_colors |-> DictGet(settings, "num_colors", 8),
     sample_fraction |-> DictGet(settings, "sample_fraction", Percent(5)),
     sat_threshold |-> DictGet(settings, "sat_threshold", Percent(20)),
     saturate |-> TRUE, sort_numerically |-> TRUE,
     value_threshold |-> DictGet(settings, "value_threshold", Percent(25)),
     white_bg |-> DictGet(settings, "white_bg", TRUE)]

\* optimize_images, lines 124-141: the options handed to the engine.
Options(settings, image_paths) ==
    [basename |-> "optimized", filenames |-> image_paths,
     global_palette |-> DictGet(settings, "global_palette", TRUE),
     num_colors |-> DictGet(settings, "num_colors", 8),
     sample_fraction |-> DictGet(settings, "sample_fraction", Percent(5)),
     sat_threshold |-> DictGet(settings, "sat_threshold", Percent(20)),
     saturate |-> TRUE, sort_numerically |-> TRUE,
     value_threshold |-> DictGet(settings, "value_threshold", Percent(25)),
     white_bg |-> DictGet(settings, "white_bg", TRUE)]

\* The engine: every input in numeric order, quantised, one output per input.
notescan_main(filenames) ==
    LET sorted == SortNumerically(filenames)
    IN [k \in 1..Len(sorted) |-> Page(ImageAt(sorted[k]).src, "quantized")]

\* images_to_pdf: the first image, then image_paths[1:] appended to it.
images_to_pdf(image_paths) ==
    [k \in 1..Len(image_paths) |-> OptimizedAt(image_paths[k])]

\* Variant: an assembly that accepts an empty list of images.
ImagesProvidedUnchecked(image_paths) == TRUE

\* Lines 168-169: no images, no PDF.
ImagesProvided(image_paths) == image_paths # <<>>

\* Variant: the main pages ahead of the cover's.
merge_pdfsMainFirst(cover, main_pages) ==
    main_pages \o (IF IsSome(cover) /\ Get(cover).exists THEN Get(cover).pages ELSE <<>>)

\* merge_pdfs: the cover's pages when the cover file exists, then the main pages.
merge_pdfs(cover, main_pages) ==
    (IF IsSome(cover) /\ Get(cover).exists THEN Get(cover).pages ELSE <<>>) \o main_pages

\* merge_pdfs raises when a cover that exists cannot be parsed.
MergeOk(cover) == (IsSome(cover) /\ Get(cover).exists) => Get(cover).readable

\* Variant: merging whether or not the book has a cover.
AfterAssemblyAlwaysMerges(cover_pdf) == "merge_pdfs"

\* Lines 279-286: the cover decides what follows the assembly.
AfterAssembly(cover_pdf) == IF cover_pdf THEN "merge_pdfs" ELSE "save"

\* Variant: a run that starts over when something raises.
RaiseRetries(wk) == [wk EXCEPT !.pc = "load", !.stages = <<>>, !.image_paths = <<>>,
                               !.optimized_paths = <<>>, !.output_pdf = "none"]

\* Line 510: whatever raised, the handler is next.
Raise(wk) == [wk EXCEPT !.raised = TRUE, !.pc = "except"]

\* The thread has returned: its locals are gone, what it did is remembered.
Ended(wk) == [wk EXCEPT !.pc = "done", !.book = None, !.image_paths = <<>>,
                        !.optimized_paths = <<>>, !.output_pdf = "none"]
Enter(wk, stage) == [wk EXCEPT !.stages = Append(@, stage)]

\* Line 491: Book.objects.get(id=book_id).
WorkerLoad(w) ==
    /\ w \in 1..Len(workers)
    /\ workers[w].pc = "load"
    /\ LET wk == workers[w]
       IN workers' = [workers EXCEPT ![w] =
             IF wk.book_id \in DOMAIN db
             THEN [wk EXCEPT !.book = Some(db[wk.book_id]), !.pc = "pdf_to_images"]
             ELSE Raise(wk)]
    /\ UNCHANGED <<db, nextId, media, workdir, uploads, procs, resp, fs, reply>>

\* Lines 256-267: the working directory and step 1.
WorkerRasterize(w, ok) ==
    /\ w \in 1..Len(workers)
    /\ workers[w].pc = "pdf_to_images"
    /\ LET wk == Enter(workers[w], "pdf_to_images")
           dir == WorkDir(wk.book_id)
           main == media[wk.book_id].main
       IN IF ok /\ Readable(main)
          THEN /\ workdir' = [workdir EXCEPT ![dir].images = Overwrite(@, Rasterize(main))]
               /\ workers' = [workers EXCEPT ![w] =
                     [wk EXCEPT !.image_paths = ImagePaths(dir, Len(Get(main).pages)),
                                !.pc = "optimize_images"]]
          ELSE /\ workers' = [workers EXCEPT ![w] = Raise(wk)]
               /\ UNCHANGED workdir
    /\ UNCHANGED <<db, nextId, media, uploads, procs, resp, fs, reply>>

\* Lines 269-272: step 2.
WorkerOptimize(w, ok) ==
    /\ w \in 1..Len(workers)
    /\ workers[w].pc = "optimize_images"
    /\ LET wk == Enter(workers[w], "optimize_images")
           dir == WorkDir(wk.book_id)
           options == Options(wk.settings, wk.image_paths)
           out == notescan_main(options.filenames)    \* line 143: the one call
       IN IF ok
          THEN /\ workdir' = [workdir EXCEPT ![dir].optimized = Overwrite(@, out)]
               /\ workers' = [workers EXCEPT ![w] =
                     [wk EXCEPT !.optimized_paths = ImagePaths(dir, Len(out)),
                                !.pc = "images_to_pdf"]]
          ELSE /\ workers' = [workers EXCEPT ![w] = Raise(wk)]
               /\ UNCHANGED workdir
    /\ UNCHANGED <<db, nextId, media, uploads, procs, resp, fs, reply>>

\* Variant: the output file is opened before the list is looked at.
WorkerAssembleOpensFirst(w, ok) ==
    /\ w \in 1..Len(workers)
    /\ workers[w].pc = "images_to_pdf"
    /\ LET wk == Enter(workers[w], "images_to_pdf")
           dir == WorkDir(wk.book_id)
       IN IF ok /\ ImagesProvided(wk.optimized_paths)
          THEN /\ workdir' = [workdir EXCEPT
                     ![dir].main_optimized = Some(images_to_pdf(wk.optimized_paths))]
               /\ workers' = [workers EXCEPT ![w] =
                     [wk EXCEPT !.output_pdf = "main_optimized",
                                !.pc = AfterAssembly(Get(wk.book).cover_pdf)]]
          ELSE /\ workers' = [workers EXCEPT ![w] = Raise(wk)]
               /\ workdir' = [workdir EXCEPT ![dir].main_optimized = Some(<<>>)]
    /\ UNCHANGED <<db, nextId, media, uploads, procs, resp, fs, reply>>

\* Lines 274-277 and 284-289: step 3; without a cover its file is the result.
WorkerAssemble(w, ok) ==
    /\ w \in 1..Len(workers)
    /\ workers[w].pc = "images_to_pdf"
    /\ LET wk == Enter(workers[w], "images_to_pdf")
           dir == WorkDir(wk.book_id)
       IN IF ok /\ ImagesProvided(wk.optimized_paths)
          THEN /\ workdir' = [workdir EXCEPT
                     ![dir].main_optimized = Some(images_to_pdf(wk.optimized_paths))]
               /\ workers' = [workers EXCEPT ![w] =
                     [wk EXCEPT !.output_pdf = "main_optimized",
                                !.pc = AfterAssembly(Get(wk.book).cover_pdf)]]
          ELSE /\ workers' = [workers EXCEPT ![w] = Raise(wk)]
               /\ UNCHANGED workdir
    /\ UNCHANGED <<db, nextId, media, uploads, procs, resp, fs, reply>>

\* Lines 279-283: step 4, for a book with a cover.
WorkerMerge(w, ok) ==
    /\ w \in 1..Len(workers)
    /\ workers[w].pc = "merge_pdfs"
    /\ LET wk == Enter(workers[w], "merge_pdfs")
           dir == WorkDir(wk.book_id)
           cover == media[wk.book_id].cover
       IN IF ok /\ MergeOk(cover)
          THEN /\ workdir' = [workdir EXCEPT ![dir].final_optimized =
                     Some(merge_pdfs(cover, Get(workdir[dir].main_optimized)))]
               /\ workers' = [workers EXCEPT ![w] =
                     [wk EXCEPT !.output_pdf = "final_optimized", !.pc = "save"]]
          ELSE /\ workers' = [workers EXCEPT ![w] = Raise(wk)]
               /\ UNCHANGED workdir
    /\ UNCHANGED <<db, nextId, media, uploads, procs, resp, fs, reply>>

\* --------------------------------------------- _process_book_background
OutputFile(wk) ==
    IF wk.output_pdf = "final_optimized"
    THEN workdir[WorkDir(wk.book_id)].final_optimized
    ELSE workdir[WorkDir(wk.book_id)].main_optimized

\* Variant: the status goes out without the output.
CompletedBookStatusOnly(w, wk) == [Get(wk.book) EXCEPT !.status = "completed"]

\* Lines 497-508: the instance loaded at line 491, with the output on it.
CompletedBook(w, wk) ==
    [Get(wk.book) EXCEPT
        !.optimized_pdf = Some([run |-> w, pages |-> Get(OutputFile(wk))]),
        !.optimized_size_mb = Some([run |-> w, mb |-> SizeMb(Get(OutputFile(wk)))]),
        !.status = "completed"]

WorkerSave(w, ok) ==
    /\ w \in 1..Len(workers)
    /\ workers[w].pc = "save"
    /\ LET wk == workers[w]
       IN IF ok
          THEN /\ db' = Save(wk.book_id, CompletedBook(w, wk))
               /\ workers' = [workers EXCEPT ![w] =
                     [Ended(wk) EXCEPT !.wrote = CompletedBook(w, wk).status]]
          ELSE /\ workers' = [workers EXCEPT ![w] = Raise(wk)]
               /\ UNCHANGED db
    /\ UNCHANGED <<nextId, media, workdir, uploads, procs, resp, fs, reply>>

\* Lines 512-515 and 518-519: the handler loads the row again; when that
\* raises, the inner handler drops the error.
WorkerExcept(w) ==
    /\ w \in 1..Len(workers)
    /\ workers[w].pc = "except"
    /\ LET wk == workers[w]
       IN workers' = [workers EXCEPT ![w] =
             IF wk.book_id \in DOMAIN db
             THEN [wk EXCEPT !.book = Some(db[wk.book_id]), !.pc = "except_save"]
             ELSE [Ended(wk) EXCEPT !.missed = TRUE]]
    /\ UNCHANGED <<db, nextId, media, workdir, uploads, procs, resp, fs, reply>>

\* Lines 516-517.
\* Variant: a handler that saves the book as it loaded it.
FailedBookKeepsStatus(wk) == Get(wk.book)

\* Lines 515-516.
FailedBook(wk) == [Get(wk.book) EXCEPT !.status = "failed"]

WorkerExceptSave(w) ==
    /\ w \in 1..Len(workers)
    /\ workers[w].pc = "except_save"
    /\ db' = Save(workers[w].book_id, FailedBook(workers[w]))
    /\ workers' = [workers EXCEPT ![w] =
          [Ended(workers[w]) EXCEPT !.wrote = FailedBook(workers[w]).status]]
    /\ UNCHANGED <<nextId, media, workdir, uploads, procs, resp, fs, reply>>

\* ------------------------------------------- book_status_json, book_download
\* Python's truth of an optional number: None and 0 are false.
Truthy(o) == IsSome(o) /\ Get(o) # 0
\* `x or 0`
OrZero(o) == IF Truthy(o) THEN Get(o) ELSE 0

\* Variant: the digits after the first decimal are cut off.
TruncTenths(num, den) == (10 * num) \div den

\* round(num / den, 1) for den > 0, as a whole number of tenths: the nearest
\* tenth, and of two equally near ones the even one.
RoundTenths(num, den) ==
    LET q == (10 * num) \div den
        r == 10 * num - q * den
    IN  IF 2 * r < den THEN q
        ELSE IF 2 * r > den THEN q + 1
        ELSE IF q % 2 = 0 THEN q ELSE q + 1

\* The number in the optimized_size_mb column, which the model stores with
\* the run that wrote it.
OptimizedMb(book) ==
    IF IsSome(book.optimized_size_mb) THEN Some(Get(book.optimized_size_mb).mb)
    ELSE None

\* Book.compression_ratio, models.py lines 85-91, in tenths of a percent.
compression_ratio(book) ==
    IF Truthy(book.original_size_mb) /\ Truthy(OptimizedMb(book))
    THEN Some(RoundTenths(100 * (Get(book.original_size_mb) - Get(OptimizedMb(book))),
                          Get(book.original_size_mb)))
    ELSE None

\* Variant: the pages of the cover are not counted.
total_pagesMainOnly(book) == OrZero(book.page_count)

\* Book.total_pages, models.py lines 93-98.
total_pages(book) == OrZero(book.cover_page_count) + OrZero(book.page_count)

\* Variant: the link is sent whatever the status.
StatusDataAlwaysLinks(b, book) ==
    [Response("book_status_json", b, 200) EXCEPT
        !.book = Some(book),
        !.status = Some(book.status),
        !.optimized_size_mb = book.optimized_size_mb,
        !.compression_ratio = compression_ratio(book),
        !.total_pages = Some(total_pages(book)),
        !.download_url = TRUE]

\* Lines 542-557: one row read; the URL is added for 'completed' alone.
StatusData(b, book) ==
    [Response("book_status_json", b, 200) EXCEPT
        !.book = Some(book),
        !.status = Some(book.status),
        !.optimized_size_mb = book.optimized_size_mb,
        !.compression_ratio = compression_ratio(book),
        !.total_pages = Some(total_pages(book)),
        !.download_url = (book.status = "completed")]

BookStatusJson(b) ==
    /\ resp' = IF b \in DOMAIN db THEN StatusData(b, db[b])
               ELSE Response("book_status_json", b, 404)
    /\ UNCHANGED <<db, nextId, media, workdir, uploads, procs, workers, fs, reply>>

\* Variant: only the presence of an output is looked at.
DownloadRefusedByFileOnly(book) == ~IsSome(book.optimized_pdf)

\* Line 568.
DownloadRefused(book) == book.status # "completed" \/ ~IsSome(book.optimized_pdf)

\* Variant: a download that takes the output off the book.
BookDownloadOnce(b, ok) ==
    /\ b \in DOMAIN db /\ ~DownloadRefused(db[b]) /\ ok
    /\ resp' = [Response("book_download", b, 200) EXCEPT
                    !.book = Some(db[b]),
                    !.content = Some(Get(db[b].optimized_pdf).pages)]
    /\ db' = [db EXCEPT ![b].optimized_pdf = None, ![b].optimized_size_mb = None]
    /\ UNCHANGED <<nextId, media, workdir, uploads, procs, workers, fs, reply>>

\* Lines 566-580; reading the stored file may fail.
BookDownload(b, ok) ==
    /\ resp' = IF b \notin DOMAIN db THEN Response("book_download", b, 404)
               ELSE IF DownloadRefused(db[b]) \/ ~ok
               THEN [Response("book_download", b, 400) EXCEPT !.book = Some(db[b])]
               ELSE [Response("book_download", b, 200) EXCEPT
                        !.book = Some(db[b]),
                        !.content = Some(Get(db[b].optimized_pdf).pages)]
    /\ UNCHANGED <<db, nextId, media, workdir, uploads, procs, workers, fs, reply>>

\* ------------------------------------------------------------------ shrink
Noteshrinker == <<"n", "o", "t", "e", "s", "h", "r", "i", "n", "k", "e", "r">>
\* str(n) for one digit.
Digit(n) == <<"0", "1", "2", "3", "4", "5", "6", "7", "8", "9">>[n + 1]

\* string.ascii_uppercase + string.digits
ascii_uppercase == {"A", "B", "C", "D", "E", "F", "G", "H", "I", "J", "K", "L", "M",
                    "N", "O", "P", "Q", "R", "S", "T", "U", "V", "W", "X", "Y", "Z"}
digits == {"0", "1", "2", "3", "4", "5", "6", "7", "8", "9"}

\* Variant: lower-case letters are drawn as well.
random_stringAnyCase(N) == [1..N -> ascii_uppercase \cup digits \cup {"a", "b"}]

\* random_string(N), lines 30-39: the strings a call can return, one
\* character drawn for each of range(N).
random_string(N) == [1..N -> ascii_uppercase \cup digits]

\* A call of random_string by itself, as the tests make it.
CallRandomString(N) ==
    /\ \E result \in random_string(N) :
          reply' = [NoReply EXCEPT !.op = "random_string",
                       !.content = Some([N |-> N, result |-> result])]
    /\ UNCHANGED <<db, nextId, media, workdir, uploads, procs, workers, resp, fs>>

\* The strings shrink draws in the model: two of those of length 1.
RandomStrings == {r \in random_string(1) : r[1] \in {"X", "Y"}}
\* The pdfname and basename parameters a POST carries.
RequestedNames == {<<"a">>, <<"a">> \o DotPdf}
Basenames == {<<"p">>}

\* Lines 182-188.
Pdfname(r, requested_name) ==
    IF ~EndsWith(requested_name, DotPdf) THEN r \o <<"_">> \o requested_name \o DotPdf
    ELSE r \o <<"_">> \o requested_name
Basename(r, basename) == r \o <<"_">> \o basename
\* The engine names one PNG per picture after the basename.
PngName(basename, k) == basename \o <<Digit(k)>> \o DotPng
Pngs(basename, n) == [k \in 1..n |-> PngName(basename, k)]

\* The four parameters shrink reads with request.POST[key].
ShrinkKeys == {"num_colors", "sample_fraction", "sat_threshold", "value_threshold"}
\* Posts with every number, with one missing, and with one that is no number.
ShrinkPosts == {CustomPost, [CustomPost EXCEPT !.sat_threshold = Absent],
                [CustomPost EXCEPT !.num_colors = "abc"]}
\* Lines 172-176: request.POST[key] raises KeyError, int() and float() ValueError.
ShrinkParses(post) == \A key \in ShrinkKeys : post[key] # Absent /\ post[key] \in NumericStrings

\* shrink: n of the requested pictures exist; the engine writes the PDF at
\* options.pdfname and the PNGs into options.picture_folder, or raises.
Shrink(n, post, r1, requested_name, r2, basename, ok) ==
    LET pdfname == Pdfname(r1, requested_name)
        pngs == Pngs(Basename(r2, basename), n)
        written == (PathJoin(PDF_ROOT, pdfname) :> File("pdf", n))
                   @@ [path \in {PathJoin(PNG_ROOT, pngs[k]) : k \in 1..n} |-> File("png", 1)]
    IN  /\ IF n = 0
           THEN reply' = [NoReply EXCEPT !.op = "shrink", !.code = 404] /\ UNCHANGED fs
           ELSE IF ~ShrinkParses(post)
           THEN reply' = BadRequest("shrink", "Invalid parameter") /\ UNCHANGED fs
           ELSE IF ~ok
           THEN /\ reply' = [BadRequest("shrink", "Error processing images") EXCEPT !.engine = TRUE]
                /\ UNCHANGED fs
           ELSE /\ fs' = written @@ fs
                /\ reply' = [NoReply EXCEPT !.op = "shrink", !.code = 200,
                                !.engine = TRUE,
                                !.content_type = "application/json",
                                !.content = Some([pngs |-> pngs, pdf |-> pdfname])]
        /\ UNCHANGED <<db, nextId, media, workdir, uploads, procs, workers, resp>>

\* --------------------------------------------------------- optimize_images
\* The settings a caller can hand over: a dictionary with any of the keys.
SettingKeys == {"num_colors", "sample_fraction", "sat_threshold", "value_threshold",
                "white_bg", "global_palette", "saturate"}
SettingChoices ==
    [num_colors : {None, Some(4)}, sample_fraction : {None, Some(Percent(10))},
     sat_threshold : {None, Some(Percent(30))}, value_threshold : {None, Some(Percent(40))},
     white_bg : {None, Some(TRUE), Some(FALSE)},
     global_palette : {None, Some(TRUE), Some(FALSE)},
     saturate : {None, Some(TRUE), Some(FALSE)}]
Dict(choice) == [key \in {k \in SettingKeys : choice[k] # None} |-> Get(choice[key])]

\* A call of optimize_images by itself, as the tests make it, for one image:
\* the engine is called with the options, and returns or raises.
CallOptimizeImages(choice, ok) ==
    LET settings == Dict(choice)
        options == Options(settings, << <<1, 1>> >>)
    IN  /\ reply' = [NoReply EXCEPT !.op = "optimize_images", !.engine = TRUE,
                         !.message = IF ok THEN "" ELSE "raised",
                         !.content = Some([settings |-> settings, options |-> options])]
        /\ UNCHANGED <<db, nextId, media, workdir, uploads, procs, workers, resp, fs>>

\* ----------------------------------------------------------- pdf_to_images
\* str(n) for n >= 0.
RECURSIVE Decimal(_)
Decimal(n) == IF n < 10 THEN <<Digit(n)>> ELSE Decimal(n \div 10) \o <<Digit(n % 10)>>
\* Zeros in front until the string is `width` long.
RECURSIVE ZeroPad(_, _)
ZeroPad(s, width) == IF Len(s) >= width THEN s ELSE ZeroPad(<<"0">> \o s, width)

\* Variant: the number as it is, without zeros in front.
ImageNameUnpadded(i) == <<"p", "a", "g", "e", "_">> \o Decimal(i) \o DotPng

\* Line 93: f"page_{i:04d}.png"
ImageName(i) == <<"p", "a", "g", "e", "_">> \o ZeroPad(Decimal(i), 4) \o DotPng

\* Lines 89-98: one path per image that convert_from_path returned, numbered
\* from 1 in the order of the pages.
pdf_to_images(images, output_dir) ==
    [i \in 1..Len(images) |-> output_dir \o <<ImageName(i)>>]

\* A call of pdf_to_images by itself, as the tests make it, for a PDF of n
\* pages: every image is saved at its path; ok is whether convert_from_path
\* returns.
CallPdfToImages(n, output_dir, ok) ==
    LET images == [i \in 1..n |-> File("png", i)]
        image_paths == pdf_to_images(images, output_dir)
    IN  /\ IF ok
           THEN /\ fs' = [path \in Range(image_paths) |->
                            images[CHOOSE i \in 1..n : image_paths[i] = path]] @@ fs
                /\ reply' = [NoReply EXCEPT !.op = "pdf_to_images", !.code = n,
                                !.opened = Some(output_dir),
                                !.content = Some(image_paths)]
           ELSE /\ reply' = [NoReply EXCEPT !.op = "pdf_to_images", !.code = n,
                                !.opened = Some(output_dir),
                                !.message = "raised"]
                /\ UNCHANGED fs
        /\ UNCHANGED <<db, nextId, media, workdir, uploads, procs, workers, resp>>

\* ------------------------------------------------------------ download_pdf
\* A character resolve() cannot take: the NUL byte.
NUL == "NUL"

\* Variant: the filename is not searched for "..".
InvalidFilenameNoDots(filename) ==
    \/ filename = <<>>
    \/ Contains(filename, <<"/">>)
    \/ Contains(filename, <<"\\">>)

\* Line 55.
InvalidFilename(filename) ==
    \/ filename = <<>>
    \/ Contains(filename, <<".", ".">>)
    \/ Contains(filename, <<"/">>)
    \/ Contains(filename, <<"\\">>)

\* q is the query's filename parameter, None when the query has none.
DownloadPdf(q) ==
    LET filename == IF IsSome(q) THEN Get(q) ELSE <<>>
        file_path == Resolve(PathJoin(PDF_ROOT, filename))
        pdf_root == Resolve(PDF_ROOT)
    IN  /\ reply' =
              IF InvalidFilename(filename)
              THEN BadRequest("download_pdf", "Invalid filename")
              ELSE IF Contains(filename, <<NUL>>)       \* resolve() raises ValueError
              THEN BadRequest("download_pdf", "Invalid file path")
              ELSE IF ~StartsWith(Str(file_path), Str(pdf_root))
              THEN BadRequest("download_pdf", "Invalid file path")
              ELSE IF ~Exists(fs, file_path)
              THEN BadRequest("download_pdf", "File not found")
              ELSE IF file_path \notin DOMAIN fs        \* open() raises IsADirectoryError
              THEN ServerError("download_pdf")
              ELSE [NoReply EXCEPT !.op = "download_pdf", !.code = 200,
                       !.content_type = "application/pdf",
                       !.disposition = Some(Name(file_path) \o DotPdf),
                       !.opened = Some(file_path),
                       !.content = Some(fs[file_path])]
        /\ UNCHANGED <<db, nextId, media, workdir, uploads, procs, workers, resp, fs>>

\* ------------------------------------------------------------ download_zip
\* Line 106.
InvalidImage(filename) ==
    \/ Contains(filename, <<".", ".">>)
    \/ Contains(filename, <<"/">>)
    \/ Contains(filename, <<"\\">>)

\* Line 99.
image_prefix(images) ==
    IF Contains(images[1], <<"_">>) THEN Take(images[1], Find(images[1], "_"))
    ELSE Noteshrinker
\* Line 100.
zipfile_name(images) ==
    PathJoin(PNG_ROOT, Noteshrinker \o <<"_">> \o image_prefix(images) \o <<"_">>
                       \o <<Digit(Len(images))>> \o DotZip)

\* zf.write(file_path, arcname=filename): a folder is entered as "./".
ArcName(disk, filename) ==
    IF PathJoin(PNG_ROOT, filename) \in DOMAIN disk THEN filename ELSE <<".", "/">>
\* Lines 106-113: the entries written, in the order of the request.
RECURSIVE Entries(_, _)
Entries(disk, images) ==
    IF images = <<>> THEN <<>>
    ELSE LET filename == Head(images)
         IN  IF InvalidImage(filename) \/ ~Exists(disk, PathJoin(PNG_ROOT, filename))
             THEN Entries(disk, Tail(images))
             ELSE <<ArcName(disk, filename)>> \o Entries(disk, Tail(images))

DownloadZip(images) ==
    LET path == zipfile_name(images)
        disk == (path :> Zip(<<>>)) @@ fs             \* the archive once opened
        archive == Zip(Entries(disk, images))
    IN  /\ IF images = <<>>
           THEN reply' = BadRequest("download_zip", "No images specified") /\ UNCHANGED fs
           ELSE IF ~Writable(path)                      \* ZipFile() raises
           THEN reply' = BadRequest("download_zip", "Error creating ZIP file") /\ UNCHANGED fs
           ELSE /\ fs' = (path :> archive) @@ fs
                /\ reply' = [NoReply EXCEPT !.op = "download_zip", !.code = 200,
                                !.content_type = "application/x-zip-compressed",
                                !.disposition = Some(Name(path)),
                                !.opened = Some(path),
                                !.content = Some(archive)]
        /\ UNCHANGED <<db, nextId, media, workdir, uploads, procs, workers, resp>>

\* ------------------------------------------------------ the specification
\* The steps of the worker threads.
WorkerStep ==
    \/ \E w \in 1..Len(workers) : WorkerLoad(w)
    \/ \E w \in 1..Len(workers), ok \in BOOLEAN : WorkerRasterize(w, ok)
    \/ \E w \in 1..Len(workers), ok \in BOOLEAN : WorkerOptimize(w, ok)
    \/ \E w \in 1..Len(workers), ok \in BOOLEAN : WorkerAssemble(w, ok)
    \/ \E w \in 1..Len(workers), ok \in BOOLEAN : WorkerMerge(w, ok)
    \/ \E w \in 1..Len(workers), ok \in BOOLEAN : WorkerSave(w, ok)
    \/ \E w \in 1..Len(workers) : WorkerExcept(w)
    \/ \E w \in 1..Len(workers) : WorkerExceptSave(w)

\* The requests that write, for at most `books` uploads.
WriteStep(books, mains, covers, posts) ==
    \/ \E main \in mains, cover \in covers :
          nextId <= books /\ BookUploadCreate(main, cover)
    \/ \E u \in uploads : BookUploadFinish(u)
    \/ \E b \in 1..books :
          Len(procs) + Len(workers) < MaxRuns /\ BookProcessRead(b)
    \/ \E k \in 1..Len(procs), post \in posts : BookProcessStart(k, post)

ReadStep(books) ==
    \/ \E b \in 1..books : BookStatusJson(b)
    \/ \E b \in 1..books, ok \in BOOLEAN : BookDownload(b, ok)

\* One book, every writing request and every input.
Next ==
    \/ WriteStep(MaxBooks, MainInputs, CoverInputs, PostInputs)
    \/ WorkerStep

Spec == Init /\ [][Next]_vars

\* One book and the requests that read it, polling while the workers run.
NextViews ==
    \/ WriteStep(MaxBooks, MainInputs, SmallCovers, {DefaultPost})
    \/ WorkerStep
    \/ ReadStep(MaxBooks)

SpecViews == Init /\ [][NextViews]_vars

\* Several books side by side, each a readable PDF.
NextBooks ==
    \/ WriteStep(MaxConcurrentBooks, ReadableMains, SmallCovers, {DefaultPost})
    \/ WorkerStep

SpecBooks == Init /\ [][NextBooks]_vars

\* One book, and settings of every kind a POST can carry.
NextSettings ==
    \/ WriteStep(MaxBooks, ReadableMains, SmallCovers, {DefaultPost, BadPost} \cup OutOfRangePosts)
    \/ WorkerStep

SpecSettings == Init /\ [][NextSettings]_vars

\* The pictures a shrink request can name.
MaxPictures == 2
\* Filenames a download_pdf query can carry: none, empty, stored, unknown,
\* the folder itself, and names with "..", "/", "\" or a NUL byte.
PdfQueries ==
    {None, Some(<<>>), Some(<<".">>), Some(<<".", ".">>), Some(<<"n">>),
     Some(<<"a", ".", ".", "b">>), Some(<<".", ".", "/", "s">>), Some(<<"/", "s">>),
     Some(<<".", ".", "\\", "s">>), Some(<<"a", "\\", "b">>), Some(<<"n", NUL>>)}
    \cup {Some(Pdfname(r, <<"a">>)) : r \in RandomStrings}
\* Names a download_zip query can list.
ImageNames ==
    {PngName(Basename(<<"X">>, <<"p">>), k) : k \in 1..MaxPictures}
    \cup {<<"n">>, <<".">>, <<".", ".", "/", "s">>, <<"a", "/", "b", "_", "c">>}
MaxImages == 2
\* The archives PNG_ROOT keeps.
MaxArchives == 1
Archives(disk) == {path \in DOMAIN disk : disk[path].kind = "zip"}
ImageLists == UNION {[1..n -> ImageNames] : n \in 0..MaxImages}

\* The image tool and its two download views.
NextFiles ==
    \/ \E n \in 0..MaxPictures, post \in ShrinkPosts, r1 \in RandomStrings,
          requested_name \in RequestedNames, r2 \in RandomStrings,
          basename \in Basenames, ok \in BOOLEAN :
          Shrink(n, post, r1, requested_name, r2, basename, ok)
    \/ \E q \in PdfQueries : DownloadPdf(q)
    \/ \E images \in ImageLists :
          /\ images # <<>> =>
                Cardinality(Archives(fs) \cup {zipfile_name(images)}) <= MaxArchives
          /\ DownloadZip(images)

SpecFiles == Init /\ [][NextFiles]_vars

\* One book, uploads of every kind of file, and a run started at any moment.
NextUpload ==
    \/ \E main \in UploadMains, cover \in UploadCovers :
          nextId <= MaxBooks /\ BookUpload(main, cover)
    \/ \E u \in uploads : BookUploadFinish(u)
    \/ \E b \in 1..MaxBooks :
          Len(procs) + Len(workers) < MaxRuns /\ BookProcessRead(b)
    \/ \E k \in 1..Len(procs) : BookProcessStart(k, DefaultPost)
    \/ WorkerStep

SpecUpload == Init /\ [][NextUpload]_vars

\* Books with every kind of statistics a row can hold, and the status poll
\* that reads compression_ratio and total_pages off them.
StatSizes == {None} \cup {Some(n) : n \in {0, 1, 2, 3, 7, 10}}
StatCounts == {None} \cup {Some(n) : n \in 0..MaxPages}
InitStats ==
    /\ \E original \in StatSizes, optimized \in StatSizes,
          pages \in StatCounts, cover_pages \in StatCounts :
          db = (1 :> [NewBook(1, IsSome(cover_pages)) EXCEPT
                         !.original_size_mb = original,
                         !.optimized_size_mb =
                             IF IsSome(optimized)
                             THEN Some([run |-> 1, mb |-> Get(optimized)])
                             ELSE None,
                         !.page_count = pages,
                         !.cover_page_count = cover_pages])
    /\ nextId = 2
    /\ media = [b \in BookIds |-> [main |-> None, cover |-> None]]
    /\ workdir = [b \in BookIds |-> EmptyDir]
    /\ uploads = {}
    /\ procs = <<>>
    /\ workers = <<>>
    /\ resp = NoResponse
    /\ fs = HostFiles
    /\ reply = NoReply

NextStats == \E b \in 1..MaxBooks : BookStatusJson(b)

SpecStats == InitStats /\ [][NextStats]_vars

\* Calls of random_string for every length up to MaxRandomLen.
MaxRandomLen == 2
NextRandom == \E N \in 1..MaxRandomLen : CallRandomString(N)

SpecRandom == Init /\ [][NextRandom]_vars

\* Calls of pdf_to_images for PDFs of up to MaxRasterPages pages.
MaxRasterPages == 11
NextRaster ==
    \E n \in 0..MaxRasterPages, output_dir \in {PDF_ROOT, PNG_ROOT}, ok \in BOOLEAN :
        CallPdfToImages(n, output_dir, ok)

SpecRaster == Init /\ [][NextRaster]_vars

\* Calls of optimize_images with every dictionary of settings.
NextOptimize == \E choice \in SettingChoices, ok \in BOOLEAN : CallOptimizeImages(choice, ok)

SpecOptimize == Init /\ [][NextOptimize]_vars

\* Every thread that can take a step eventually takes one.
Fairness ==
    /\ \A w \in 1..MaxRuns :
          /\ WF_vars(WorkerLoad(w))
          /\ WF_vars(\E ok \in BOOLEAN : WorkerRasterize(w, ok))
          /\ WF_vars(\E ok \in BOOLEAN : WorkerOptimize(w, ok))
          /\ WF_vars(\E ok \in BOOLEAN : WorkerAssemble(w, ok))
          /\ WF_vars(\E ok \in BOOLEAN : WorkerMerge(w, ok))
          /\ WF_vars(\E ok \in BOOLEAN : WorkerSave(w, ok))
          /\ WF_vars(WorkerExcept(w))
          /\ WF_vars(WorkerExceptSave(w))
    /\ WF_vars(\E u \in uploads : BookUploadFinish(u))
    /\ WF_vars(\E k \in 1..Len(procs), post \in PostInputs : BookProcessStart(k, post))

NextFair ==
    \/ WriteStep(MaxBooks, MainInputs, SmallCovers, PostInputs)
    \/ WorkerStep

SpecFair == Init /\ [][NextFair]_vars /\ Fairness

\* ================================================================ claims
Workers == 1..Len(workers)
IsPrefix(s, t) == Len(s) <= Len(t) /\ s = SubSeq(t, 1, Len(s))
Srcs(pages) == [i \in 1..Len(pages) |-> pages[i].src]

\* What was uploaded for book b, whether or not the files are still there.
MainPages(b) == IF IsSome(media[b].main) THEN Get(media[b].main).pages ELSE <<>>
CoverPages(b) == IF IsSome(media[b].cover) THEN Get(media[b].cover).pages ELSE <<>>
HasCover(b) == IsSome(media[b].cover)
ZeroPages(b) == IsSome(media[b].main) /\ Get(media[b].main).readable /\ MainPages(b) = <<>>

StageOrder == <<"pdf_to_images", "optimize_images", "images_to_pdf", "merge_pdfs">>

\* C1: within one run the stages are entered in the order pdf_to_images,
\* optimize_images, images_to_pdf, merge_pdfs, each at most once; a stage is
\* entered only when the stage before it has returned a result for every page;
\* merge_pdfs is entered only for a book with a cover, and a run of such a book
\* that writes 'completed' has entered all four.
C1_StagesInOrder ==
    \A w \in Workers :
        LET wk == workers[w] IN
        /\ IsPrefix(wk.stages, StageOrder)
        /\ wk.pc = "optimize_images" =>
              /\ wk.stages = SubSeq(StageOrder, 1, 1)
              /\ Len(wk.image_paths) = Len(MainPages(wk.book_id))
        /\ wk.pc = "images_to_pdf" =>
              /\ wk.stages = SubSeq(StageOrder, 1, 2)
              /\ Len(wk.optimized_paths) = Len(MainPages(wk.book_id))
        /\ wk.pc = "merge_pdfs" => wk.stages = SubSeq(StageOrder, 1, 3)
        /\ "merge_pdfs" \in Range(wk.stages) => HasCover(wk.book_id)
        /\ wk.wrote = "completed" =>
              wk.stages = SubSeq(StageOrder, 1, IF HasCover(wk.book_id) THEN 4 ELSE 3)

C1_Witness ==
    \E w \in Workers : workers[w].wrote = "completed" /\ workers[w].stages = StageOrder

C8_CoverThenMain ==
    \A b \in DOMAIN db :
        db[b].status = "completed" =>
            LET out == Get(db[b].optimized_pdf).pages IN
            /\ Srcs(out) = PageSeq(b, "C", Len(CoverPages(b))) \o PageSeq(b, "P", Len(MainPages(b)))
            /\ ~HasCover(b) => Srcs(out) = Srcs(MainPages(b))
            /\ \A i \in 1..Len(out) :
                  out[i].form = IF i <= Len(CoverPages(b)) THEN "original" ELSE "quantized"

C8_Witness ==
    \E b \in DOMAIN db :
        /\ db[b].status = "completed"
        /\ Len(CoverPages(b)) = MaxCoverPages /\ Len(MainPages(b)) = MaxPages
        /\ Len(Get(db[b].optimized_pdf).pages) = MaxCoverPages + MaxPages

Terminal(book) == book.status \in {"completed", "failed"}

\* What a finished job has to show: status, settings, output and its size.
Outcome(book) ==
    <<book.status, book.processing_settings, book.optimized_pdf, book.optimized_size_mb>>

OutcomeChanged(b) == b \notin DOMAIN db' \/ Outcome(db'[b]) # Outcome(db[b])

\* A request made for book b once b is finished: a status query, a download,
\* or a book_process that read the finished status.
LaterRequest(b) ==
    \/ BookStatusJson(b)
    \/ \E ok \in BOOLEAN : BookDownload(b, ok)
    \/ \E k \in 1..Len(procs), post \in PostInputs :
          procs[k].book_id = b /\ Terminal(procs[k].book) /\ BookProcessStart(k, post)

\* C2 as stated: once a book is 'completed' or 'failed', a later request,
\* a further book_process for it included, changes neither its status nor
\* its settings nor its output, and starts no run for it.
C2_TerminalIsFinal ==
    [][\A b \in DOMAIN db :
          (Terminal(db[b]) /\ LaterRequest(b)) => ~OutcomeChanged(b) /\ workers' = workers]_vars

\* The steps that write a book's row: a book_process request for it, the saves
\* of a worker running for it, and the second half of the upload that made it.
WritesOutcome(b) ==
    \/ \E k \in 1..Len(procs), post \in PostInputs :
          procs[k].book_id = b /\ BookProcessStart(k, post)
    \/ \E w \in Workers, ok \in BOOLEAN : workers[w].book_id = b /\ WorkerSave(w, ok)
    \/ \E w \in Workers : workers[w].book_id = b /\ WorkerExceptSave(w)
    \/ \E u \in uploads : u.book_id = b /\ BookUploadFinish(u)

\* C2, amended: the status, settings and output of a 'completed' or 'failed'
\* book change only by a further book_process request for that book (accepted
\* unless the status it read was 'processing', and run again in place), by a
\* save of a worker running for that book, or by the upload that created it;
\* the status query and the download never change them.
C2_TerminalChangesOnlyByWriters ==
    [][\A b \in DOMAIN db : (Terminal(db[b]) /\ OutcomeChanged(b)) => WritesOutcome(b)]_vars

\* A run started for a book that an earlier run had finished.
C2_Witness ==
    \E w1, w2 \in Workers :
        /\ w1 < w2 /\ workers[w1].book_id = workers[w2].book_id
        /\ workers[w1].wrote \in {"completed", "failed"}
        /\ workers[w2].pc # "done"
        /\ workers[w2].book_id \in DOMAIN db
        /\ db[workers[w2].book_id].status = "processing"

\* C6: a status answer that says 'completed' was read from a row that holds
\* the output and its size, both stored by one run, the run that saved
\* 'completed'; the size it sends is that size.
C6_CompletedComesWithOutput ==
    /\ \A b \in DOMAIN db :
          db[b].status = "completed" =>
              /\ IsSome(db[b].optimized_pdf) /\ IsSome(db[b].optimized_size_mb)
              /\ Get(db[b].optimized_pdf).run = Get(db[b].optimized_size_mb).run
              /\ Get(db[b].optimized_pdf).run \in Workers
              /\ workers[Get(db[b].optimized_pdf).run].wrote = "completed"
              /\ Get(db[b].optimized_size_mb).mb = SizeMb(Get(db[b].optimized_pdf).pages)
    /\ (resp.op = "book_status_json" /\ resp.status = Some("completed")) =>
          LET book == Get(resp.book) IN
          /\ IsSome(book.optimized_pdf) /\ IsSome(book.optimized_size_mb)
          /\ Get(book.optimized_pdf).run = Get(book.optimized_size_mb).run
          /\ resp.optimized_size_mb = book.optimized_size_mb
          /\ resp.download_url

\* A status answer of 'completed' given while a later run is under way.
C6_Witness ==
    /\ resp.op = "book_status_json" /\ resp.status = Some("completed")
    /\ \E w \in Workers : workers[w].pc \notin {"load", "done"}

\* C7: book_download sends content only for a book it read as 'completed'
\* with an output recorded, and the content is that output; for a book in any
\* other status it answers 400 and sends nothing.
C7_DownloadOnlyCompleted ==
    resp.op = "book_download" =>
        /\ resp.code \in {200, 400, 404}
        /\ IsSome(resp.content) <=> resp.code = 200
        /\ resp.code = 404 <=> ~IsSome(resp.book)
        /\ resp.code = 200 =>
              /\ Get(resp.book).status = "completed"
              /\ IsSome(Get(resp.book).optimized_pdf)
              /\ resp.content = Some(Get(Get(resp.book).optimized_pdf).pages)
        /\ (IsSome(resp.book) /\ Get(resp.book).status # "completed") =>
              resp.code = 400 /\ ~IsSome(resp.content)

\* A refusal for a book that still holds the output of an earlier run.
C7_Witness ==
    /\ resp.op = "book_download" /\ resp.code = 400
    /\ Get(resp.book).status = "failed" /\ IsSome(Get(resp.book).optimized_pdf)

\* C10: book_status_json answers with the status of the row it read, and the
\* answer carries a download link exactly when that status is 'completed'.
C10_StatusAndLink ==
    resp.op = "book_status_json" =>
        /\ resp.code = 404 <=> ~IsSome(resp.book)
        /\ resp.code = 200 =>
              /\ resp.status = Some(Get(resp.book).status)
              /\ Get(resp.status) \in STATUS_CHOICES
              /\ resp.download_url <=> Get(resp.status) = "completed"
        /\ resp.code # 200 => ~resp.download_url /\ resp.status = None

C10_Witness ==
    /\ resp.op = "book_status_json" /\ resp.code = 200
    /\ resp.status = Some("processing") /\ ~resp.download_url
    /\ IsSome(Get(resp.book).optimized_pdf)

\* The paths a worker holds lie in the working folder of its book.
OwnPaths(wk) ==
    \A path \in Range(wk.image_paths) \cup Range(wk.optimized_paths) : path[1] = wk.book_id

RowUntouched(b) == IF b \in DOMAIN db THEN b \in DOMAIN db' /\ db'[b] = db[b]
                   ELSE b \notin DOMAIN db'

\* C5: a worker holds the row of its own book and paths in its own folder
\* only, and a step of a worker, failing or not, leaves the row, the files and
\* the working folder of every other book as they were.
C5_WorkersKeepToTheirBook ==
    /\ [](\A w \in Workers :
            /\ OwnPaths(workers[w])
            /\ IsSome(workers[w].book) =>
                  Get(workers[w].book).cover_pdf = HasCover(workers[w].book_id))
    /\ [][\A w \in Workers :
            workers'[w] # workers[w] =>
                \A b \in BookIds \ {workers[w].book_id} :
                    RowUntouched(b) /\ workdir'[b] = workdir[b] /\ media'[b] = media[b]]_vars

\* Two books that ran side by side, one to 'failed' and one to 'completed'.
C5_Witness ==
    \E w1, w2 \in Workers :
        /\ workers[w1].book_id # workers[w2].book_id
        /\ workers[w1].wrote = "failed" /\ workers[w2].wrote = "completed"
        /\ workers[w1].stages # <<>>
        /\ workers[w1].book_id \in DOMAIN db /\ workers[w2].book_id \in DOMAIN db
        /\ db[workers[w1].book_id].status = "failed"
        /\ db[workers[w2].book_id].status = "completed"
        /\ Srcs(Get(db[workers[w2].book_id].optimized_pdf).pages) =
              Srcs(CoverPages(workers[w2].book_id)) \o Srcs(MainPages(workers[w2].book_id))

Started(w) == w <= Len(workers)

StatusKeys(r) ==
    {"status", "title", "original_size_mb", "optimized_size_mb",
     "compression_ratio", "page_count", "total_pages"}
        \cup (IF r.download_url THEN {"download_url"} ELSE {})

\* The columns of the Book table.
BookFields ==
    {"main_pdf", "cover_pdf", "optimized_pdf", "title", "original_filename",
     "upload_date", "status", "original_size_mb", "optimized_size_mb",
     "page_count", "cover_page_count", "processing_settings", "session_key"}

ErrorKeys == {"error", "error_message", "error_description", "message", "detail"}

\* C11 as stated: a status answer that says 'failed' carries a description of
\* the error, kept on the book.
C11_FailedCarriesDescription ==
    (resp.op = "book_status_json" /\ resp.status = Some("failed")) =>
        /\ StatusKeys(resp) \cap ErrorKeys # {}
        /\ BookFields \cap ErrorKeys # {}

\* ------------------------------------------------------------------ C12
Running(w) == workers[w].pc # "done"

\* The terminal write of worker w: line 508 or line 517.
OwnWrite(w) == (\E ok \in BOOLEAN : WorkerSave(w, ok)) \/ WorkerExceptSave(w)

\* C12 as stated: while a worker runs for a book whose status is
\* 'processing', a step that is not that worker's own terminal write leaves
\* the row in place with status 'processing'.
C12_ProcessingUntilOwnWrite ==
    [][\A w \in Workers :
          LET b == workers[w].book_id IN
          (Running(w) /\ b \in DOMAIN db /\ db[b].status = "processing" /\ ~OwnWrite(w))
              => (b \in DOMAIN db' /\ db'[b].status = "processing")]_vars

\* ------------------------------------------------------------------ C13
\* book_process has answered for book b with its redirect: a worker was started.
Responded(b) == \E w \in Workers : workers[w].book_id = b

\* C13 as stated: a status read made once book_process has answered for the
\* book returns 'processing', 'completed' or 'failed', never 'uploaded' or
\* 'preview'.
C13_StatusAfterProcess ==
    [][\A b \in 1..MaxBooks :
          (Responded(b) /\ BookStatusJson(b) /\ resp'.code = 200) =>
              resp'.status \in {Some("processing"), Some("completed"), Some("failed")}]_vars

\* ------------------------------------------------------------------ C14
\* C14 as stated: a running worker keeps the settings book_process handed it,
\* and while it runs no step but its own terminal write changes the settings
\* stored on its book.
C14_SettingsFixedDuringRun ==
    [][\A w \in Workers :
          LET b == workers[w].book_id IN
          (Running(w) /\ ~OwnWrite(w)) =>
              /\ workers'[w].settings = workers[w].settings
              /\ (b \in DOMAIN db /\ b \in DOMAIN db') =>
                    db'[b].processing_settings = db[b].processing_settings]_vars

\* ------------------------------------------------------------------ C15
\* A fraction <<p, 100>> lies in (0,1], or in [0,1].
InUnitOpen(f) == 0 < f[1] /\ f[1] <= f[2]
InUnit(f) == 0 <= f[1] /\ f[1] <= f[2]

InRange(settings) ==
    /\ settings.num_colors >= 1
    /\ settings.dpi > 0
    /\ InUnitOpen(settings.sample_fraction)
    /\ InUnit(settings.sat_threshold)
    /\ InUnit(settings.value_threshold)

\* C15 as stated: every worker that book_process has started was given
\* settings inside the ranges, and so were the settings stored on the book.
C15_StartedSettingsInRange ==
    /\ \A w \in Workers : InRange(workers[w].settings)
    /\ \A b \in DOMAIN db :
          IsSome(db[b].processing_settings) => InRange(Get(db[b].processing_settings))

\* ------------------------------------------------------------------ C16
\* Worker w is about to call images_to_pdf with no images.
AssemblesNothing(w) ==
    workers[w].pc = "images_to_pdf" /\ workers[w].optimized_paths = <<>>

\* Worker w has called images_to_pdf, for a book whose main PDF has no pages.
AssembledNothing(w) ==
    ZeroPages(workers[w].book_id) /\ "images_to_pdf" \in Range(workers[w].stages)

MaxInk == 5
Inks(path) == [k \in 1..MaxInk |-> PageNumber(path) * MaxInk + k]

RECURSIVE PooledInks(_)
PooledInks(paths) ==
    IF paths = <<>> THEN <<>> ELSE Inks(Head(paths)) \o PooledInks(Tail(paths))

\* Up to k representative colours, never more than there are samples.
Cluster(inks, k) ==
    IF k <= 0 THEN <<>> ELSE SubSeq(inks, 1, IF k < Len(inks) THEN k ELSE Len(inks))

\* Background first, then up to num_colors - 1 foreground colours.
BuildPalette(inks, options) ==
    <<IF options.white_bg THEN 0 - 1 ELSE 0>> \o Cluster(inks, options.num_colors - 1)

\* The palette used for the k-th file: one for all with global_palette.
PaletteFor(options, k) ==
    LET sorted == SortNumerically(options.filenames)
    IN IF options.global_palette THEN BuildPalette(PooledInks(sorted), options)
       ELSE BuildPalette(Inks(sorted[k]), options)

Distinct(seq) == \A i, j \in 1..Len(seq) : i # j => seq[i] # seq[j]

Refused(q) ==
    \/ q = None
    \/ Get(q) = <<>>
    \/ \E i \in 1..Len(Get(q)) : Get(q)[i] \in {"/", "\\"}
    \/ \E i \in 1..(Len(Get(q)) - 1) : Get(q)[i] = "." /\ Get(q)[i + 1] = "."
\* A regular file directly in the folder.
FileIn(disk, root, path) == path \in DOMAIN disk /\ Len(path) = Len(root) + 1 /\ Parent(path) = root

\* C18: whatever filename a download_pdf request carries, a filename that is
\* missing, empty, or contains "..", "/" or "\" is answered with 400 'Invalid
\* filename' and no file is opened, and whenever content is served it is the
\* content of a regular file located in PDF_ROOT.
C18_ServesOnlyInsidePdfRoot ==
    [][\A q \in PdfQueries : DownloadPdf(q) =>
          /\ Refused(q) =>
                /\ reply'.code = 400 /\ reply'.message = "Invalid filename"
                /\ reply'.opened = None /\ reply'.content = None
          /\ (reply'.opened # None \/ reply'.content # None) =>
                /\ IsSome(reply'.opened)
                /\ FileIn(fs, PDF_ROOT, Get(reply'.opened))
                /\ reply'.content = Some(fs[Get(reply'.opened)])]_vars

\* A request with ".." was refused while PDF_ROOT held a file to serve.
C18_Witness ==
    /\ reply.op = "download_pdf" /\ reply.code = 400
    /\ reply.message = "Invalid filename" /\ reply.opened = None
    /\ \E path \in DOMAIN fs : FileIn(fs, PDF_ROOT, path)

\* The filename passed every check the view makes before it looks for the file.
PassesValidation(q) ==
    /\ ~Refused(q)
    /\ NUL \notin Range(Get(q))
    /\ IsPrefix(Str(PDF_ROOT), Str(Resolve(PathJoin(PDF_ROOT, Get(q)))))

\* C19 as stated: for a filename that passes validation, download_pdf answers
\* 200 with the file's bytes as an application/pdf attachment when the file
\* exists in PDF_ROOT, and 400 'File not found' when it does not.
C19_FoundOrNotFound ==
    [][\A q \in PdfQueries : (DownloadPdf(q) /\ PassesValidation(q)) =>
          LET path == PDF_ROOT \o <<Get(q)>>
          IN  IF FileIn(fs, PDF_ROOT, path)
              THEN /\ reply'.code = 200 /\ reply'.content_type = "application/pdf"
                   /\ IsSome(reply'.disposition) /\ reply'.content = Some(fs[path])
              ELSE reply'.code = 400 /\ reply'.message = "File not found"]_vars

\* The requested names that are valid and exist in PNG_ROOT, in request order.
Wanted(disk, images) ==
    LET Keep(filename) ==
          /\ ~\E i \in 1..Len(filename) : filename[i] \in {"/", "\\"}
          /\ ~\E i \in 1..(Len(filename) - 1) : filename[i] = "." /\ filename[i + 1] = "."
          /\ Exists(disk, PNG_ROOT \o <<filename>>)
    IN  SelectSeq(images, Keep)

\* C20 as stated: download_zip with an empty image list answers 400 'No images
\* specified' and writes no archive; otherwise it answers with an archive that
\* contains exactly the requested names that are valid and exist in PNG_ROOT,
\* in request order, and invalid or missing names do not fail the request.
C20_ZipHoldsValidExistingNames ==
    [][\A images \in ImageLists : DownloadZip(images) =>
          IF images = <<>>
          THEN /\ reply'.code = 400 /\ reply'.message = "No images specified"
               /\ fs' = fs
          ELSE /\ reply'.code = 200
               /\ reply'.content = Some(Zip(Wanted(fs, images)))]_vars

\* The parameters of a shrink POST the claim calls unusable: one is missing
\* or is no number.
LacksParameter(post) == \E key \in ShrinkKeys : post[key] = Absent \/ post[key] \notin NumericStrings

\* C21 as stated: every shrink POST that lacks one of num_colors,
\* sample_fraction, sat_threshold and value_threshold, or gives a value that is
\* no number for one, is answered with 400 and does not call the engine,
\* whether or not the pictures it lists exist.
C21_BadParametersGet400 ==
    [][\A n \in 0..MaxPictures, post \in ShrinkPosts, r1 \in RandomStrings,
          requested_name \in RequestedNames, r2 \in RandomStrings,
          basename \in Basenames, ok \in BOOLEAN :
          (Shrink(n, post, r1, requested_name, r2, basename, ok) /\ LacksParameter(post))
              => (reply'.code = 400 /\ ~reply'.engine)]_vars

\* The name ends in ".pdf", read off its last four characters.
NamedPdf(name) ==
    /\ Len(name) >= 4
    /\ name[Len(name) - 3] = "." /\ name[Len(name) - 2] = "p"
    /\ name[Len(name) - 1] = "d" /\ name[Len(name)] = "f"
\* No main file, or a main or cover file whose name does not end in ".pdf".
BadFiles(main, cover) ==
    \/ main = None
    \/ ~NamedPdf(Get(main).name)
    \/ (cover # None /\ ~NamedPdf(Get(cover).name))

\* C22: a book_upload POST with no main PDF, with a main file whose name does
\* not end in ".pdf", or with a cover file whose name does not end in ".pdf",
\* is answered with 400 and leaves the Book records, and the stored files, as
\* they were.
C22_BadFilesRefused ==
    [][\A main \in UploadMains, cover \in UploadCovers :
          (BookUpload(main, cover) /\ BadFiles(main, cover)) =>
              /\ resp'.op = "book_upload" /\ resp'.code = 400
              /\ db' = db /\ media' = media /\ nextId' = nextId /\ uploads' = uploads]_vars

\* An upload was refused for its cover's name, and no Book exists.
C22_Witness ==
    /\ resp.op = "book_upload" /\ resp.code = 400
    /\ resp.content = Some("Cover file must be a PDF")
    /\ db = <<>> /\ uploads = {}

\* Both files stored for book b can be read as PDFs.
StoredPdfsReadable(b) == Readable(media[b].main) /\ (HasCover(b) => Readable(media[b].cover))
\* Size of what was uploaded for book b: the main file plus the cover, if any.
UploadedSize(b) == SizeMb(MainPages(b)) + (IF HasCover(b) THEN SizeMb(CoverPages(b)) ELSE 0)

\* C23: a book_upload POST whose files are accepted creates exactly one new
\* Book, and when it returns its redirect (its files being readable PDFs) that
\* Book has status 'preview', page_count equal to the main PDF's page count,
\* cover_page_count set exactly when a cover was supplied, and
\* original_size_mb equal to the main size plus the cover size; the request
\* creates no other Book.
C23_UploadCreatesPreviewBook ==
    [][/\ \A main \in UploadMains, cover \in UploadCovers :
             (BookUpload(main, cover) /\ ~BadFiles(main, cover)) =>
                 /\ nextId \notin DOMAIN db
                 /\ DOMAIN db' = DOMAIN db \cup {nextId}
                 /\ \A b \in DOMAIN db : db'[b] = db[b]
       /\ \A u \in uploads :
             (BookUploadFinish(u) /\ StoredPdfsReadable(u.book_id)) =>
                 LET b == u.book_id
                 IN  /\ DOMAIN db' = DOMAIN db /\ b \in DOMAIN db'
                     /\ \A c \in DOMAIN db \ {b} : db'[c] = db[c]
                     /\ db'[b].status = "preview"
                     /\ db'[b].page_count = Some(Len(MainPages(b)))
                     /\ db'[b].cover_page_count =
                           (IF HasCover(b) THEN Some(Len(CoverPages(b))) ELSE None)
                     /\ db'[b].original_size_mb = Some(UploadedSize(b))]_vars

\* An upload with a cover has returned its redirect.
C23_Witness ==
    /\ uploads = {} /\ procs = <<>> /\ workers = <<>>
    /\ 1 \in DOMAIN db /\ db[1].status = "preview" /\ HasCover(1)
    /\ db[1].page_count = Some(MaxPages) /\ db[1].cover_page_count = Some(1)
    /\ db[1].original_size_mb = Some(MaxPages + 1 + 2)

\* C24: in every reachable state each Book's status is one of 'uploaded',
\* 'preview', 'processing', 'completed' and 'failed', and the Book that
\* book_upload creates has status 'uploaded'.
C24_StatusIsAChoice ==
    /\ [](\A b \in DOMAIN db : db[b].status \in STATUS_CHOICES)
    /\ [][\A main \in MainInputs, cover \in CoverInputs :
             BookUploadCreate(main, cover) =>
                 (nextId \in DOMAIN db' /\ db'[nextId].status = "uploaded")]_vars

\* A worker has written its outcome over the status the views had set.
C24_Witness ==
    \E w \in Workers :
        /\ workers[w].wrote \in {"completed", "failed"}
        /\ workers[w].book_id \in DOMAIN db
        /\ db[workers[w].book_id].status = workers[w].wrote

\* A size that is missing or zero.
NoSize(o) == o = None \/ o = Some(0)

\* C25: Book.compression_ratio is None exactly when original_size_mb or
\* optimized_size_mb is missing or zero; otherwise it is
\* (1 - optimized_size_mb / original_size_mb) * 100 rounded to one decimal,
\* that is a tenth no further than half a tenth from the exact value; for the
\* sizes 10 and 2 it is 80.0.
C25_CompressionRatio ==
    (resp.op = "book_status_json" /\ resp.code = 200) =>
        LET book == Get(resp.book)
            g == Get(book.original_size_mb)
            o == Get(OptimizedMb(book))
            tenths == Get(resp.compression_ratio)
            diff == tenths * g - 1000 * (g - o)
        IN  /\ resp.compression_ratio = None
                  <=> (NoSize(book.original_size_mb) \/ NoSize(OptimizedMb(book)))
            /\ resp.compression_ratio # None =>
                  /\ 2 * diff <= g /\ 2 * (0 - diff) <= g
                  /\ (g = 10 /\ o = 2) => tenths = 800

\* The ratio of a book of size 3 optimized to size 2: 33.3 percent.
C25_Witness ==
    /\ resp.op = "book_status_json" /\ resp.code = 200
    /\ Get(resp.book).original_size_mb = Some(3)
    /\ OptimizedMb(Get(resp.book)) = Some(2)
    /\ resp.compression_ratio = Some(333)

\* A count, a missing one taken as 0.
Count(o) == IF o = None THEN 0 ELSE Get(o)

\* C26: Book.total_pages is cover_page_count + page_count, where a count that
\* is missing (null) is taken as 0.
C26_TotalPages ==
    (resp.op = "book_status_json" /\ resp.code = 200) =>
        resp.total_pages = Some(Count(Get(resp.book).cover_page_count)
                                + Count(Get(resp.book).page_count))

\* The total of a book with a cover of one page and no page count yet.
C26_Witness ==
    /\ resp.op = "book_status_json" /\ resp.code = 200
    /\ Get(resp.book).cover_page_count = Some(1)
    /\ Get(resp.book).page_count = None
    /\ resp.total_pages = Some(1)

\* The characters the tests allow in a random string.
valid_chars ==
    {"A", "B", "C", "D", "E", "F", "G", "H", "I", "J", "K", "L", "M", "N", "O", "P", "Q",
     "R", "S", "T", "U", "V", "W", "X", "Y", "Z", "0", "1", "2", "3", "4", "5", "6", "7",
     "8", "9"}

\* C27: for every N >= 1, random_string(N) returns a string of exactly N
\* characters, each an upper-case ASCII letter or a digit.
C27_RandomString ==
    reply.op = "random_string" =>
        LET call == Get(reply.content)
        IN  /\ Len(call.result) = call.N
            /\ \A i \in 1..Len(call.result) : call.result[i] \in valid_chars

\* A call for the longest string returned a letter followed by a digit.
C27_Witness ==
    /\ reply.op = "random_string"
    /\ Get(reply.content).N = MaxRandomLen
    /\ Get(reply.content).result[1] = "Q"
    /\ Get(reply.content).result[MaxRandomLen] = "7"

\* page_<i in four digits>.png, digit by digit, for i below 10000.
FourDigitName(i) ==
    <<"p", "a", "g", "e", "_",
      Digit(i \div 1000), Digit((i \div 100) % 10), Digit((i \div 10) % 10), Digit(i % 10),
      ".", "p", "n", "g">>

\* C28: pdf_to_images returns exactly one image path per page of the PDF, in
\* page order: the i-th path, counted from 1, is page_<i zero-padded to four
\* digits>.png inside the output directory, and holds the image of page i.
C28_OnePathPerPage ==
    (reply.op = "pdf_to_images" /\ reply.content # None) =>
        LET image_paths == Get(reply.content)
            output_dir == Get(reply.opened)
        IN  /\ Len(image_paths) = reply.code
            /\ \A i \in 1..Len(image_paths) :
                  /\ image_paths[i] = output_dir \o <<FourDigitName(i)>>
                  /\ image_paths[i] \in DOMAIN fs
                  /\ fs[image_paths[i]] = File("png", i)

\* A PDF of more than nine pages was converted.
C28_Witness ==
    /\ reply.op = "pdf_to_images" /\ reply.code = MaxRasterPages
    /\ reply.content # None
    /\ Len(Get(reply.content)) = MaxRasterPages
    /\ Name(Get(reply.content)[10]) = <<"p", "a", "g", "e", "_", "0", "0", "1", "0", ".", "p", "n", "g">>

\* C29 as stated: optimize_images hands every recognised setting that the
\* job's settings hold to the engine unchanged (num_colors, sample_fraction,
\* sat_threshold, value_threshold, white_bg, global_palette and saturate): a
\* job configured with saturate false runs the engine with saturate false.
C29_SettingsForwarded ==
    reply.op = "optimize_images" =>
        LET call == Get(reply.content)
        IN  \A key \in {"num_colors", "sample_fraction", "sat_threshold", "value_threshold",
                        "white_bg", "global_palette", "saturate"} :
                key \in DOMAIN call.settings => call.options[key] = call.settings[key]

\* C30 as stated: in every reachable state a Book whose status is 'failed'
\* has no output recorded, neither an optimized_pdf nor an optimized_size_mb.
C30_FailedHasNoOutput ==
    \A b \in DOMAIN db :
        db[b].status = "failed" =>
            (db[b].optimized_pdf = None /\ db[b].optimized_size_mb = None)

\* ------------------------------------------------------------------ C31
\* How often a run has called the engine.
EngineCalls(wk) == Cardinality({i \in 1..Len(wk.stages) : wk.stages[i] = "optimize_images"})

\* The rasters of every page of a book's main PDF, in page order.
EveryPage(b) == [i \in 1..Len(MainPages(b)) |-> <<WorkDir(b), i>>]

\* C31: a run calls the engine at most once, and when its settings have
\* global_palette set and the call has returned, the call was made with
\* global_palette set and with the rasters of all pages of the main PDF as its
\* filenames, one output came back per page, and the engine's palette for
\* every page is the one palette built from the inks pooled over all pages.
C31_OneEngineCallForAllPages ==
    \A w \in Workers :
        LET wk == workers[w]
            options == Options(wk.settings, wk.image_paths)
        IN  /\ EngineCalls(wk) <= 1
            /\ (wk.pc = "images_to_pdf" /\ wk.settings.global_palette) =>
                  /\ EngineCalls(wk) = 1
                  /\ options.global_palette
                  /\ options.filenames = EveryPage(wk.book_id)
                  /\ Len(wk.optimized_paths) = Len(MainPages(wk.book_id))
                  /\ \A k \in 1..Len(options.filenames) :
                        PaletteFor(options, k) =
                            BuildPalette(PooledInks(EveryPage(wk.book_id)), options)

\* A run with global_palette set whose engine call has returned the pages of
\* a main PDF of MaxPages pages.
C31_Witness ==
    \E w \in Workers :
        /\ workers[w].pc = "images_to_pdf"
        /\ workers[w].settings.global_palette
        /\ EngineCalls(workers[w]) = 1
        /\ Len(workers[w].optimized_paths) = MaxPages
        /\ MaxPages >= 2

\* ------------------------------------------------------------------ C32
\* The background workers of book b that have not returned yet.
RunningFor(b) == {w \in Workers : workers[w].book_id = b /\ workers[w].pc # "done"}

\* C32 as stated: at any time at most one background worker is running for a
\* book, whatever the interleaving of the book_process requests for it.
C32_OneWorkerPerBook ==
    \A b \in BookIds : Cardinality(RunningFor(b)) <= 1

====
